---- MODULE Spec2Model ----
(***************************************************************************)
(* Ticket pipeline: TicketService (create / query / update), the Redis     *)
(* ticket repository, the Redis stream producer and consumer-group         *)
(* consumer, and the TicketProcessor worker loop with its background       *)
(* units of work (process_ticket tasks).                                   *)
(***************************************************************************)
EXTENDS Integers, Sequences, FiniteSets, TLC

\* ---------------------------------------------------------------- bounds
MaxTickets == 2     \* create_ticket calls (each draws a fresh uuid4)
MaxExtra == 1       \* units of work beyond one per created ticket
MaxClock == 2       \* largest value datetime.now() reaches
MaxFaults == 1      \* calls of the store, the broker or the backend that fail
FewTickets == 1     \* create_ticket calls where one ticket is studied closely
MaxCalls == 2       \* direct calls of update_ticket_status / _answer
\* restarts of start_processing the interpreter's recursion limit allows
\* (sys.getrecursionlimit(), scaled down)
RecursionLimit == 1
\* calls of InMemoryMessageBroker.subscribe, and of its publish
MaxSubs == 2
MaxMessages == 2
\* entries other producers append to the stream: enough of them to take one
\* worker past the recursion limit
MaxRaw == RecursionLimit + 1

\* ------------------------------------------------------------- universes
TicketIds == 1..MaxTickets
UnknownId == 0                      \* an id no create_ticket call ever draws
Ids == {UnknownId} \cup TicketIds
Units == 1..(MaxTickets + MaxExtra)
DefaultConsumer == "ticket-processor-1"   \* TicketProcessor.__init__ default
Consumers == {DefaultConsumer, "ticket-processor-2"}
Questions == {"2+2?"}
Answers == {"a1", "a2"}
None == "None"               \* Python None in a string-valued field
Nothing == << >>             \* an absent value: Optional[...] as a 0/1 sequence
Some(x) == << x >>

UNINITIALIZED == "UNINITIALIZED"
PROCESSING == "PROCESSING"
DONE == "DONE"
TicketStatus == {UNINITIALIZED, PROCESSING, DONE}

TicketCreatedTopic == "ticket.created"
max_retries == 3

\* ------------------------------------------------------- ticket encoding
\* TicketStatus(str, Enum): the value each member serialises to
StatusValue(s) ==
  CASE s = UNINITIALIZED -> "uninitialized"
    [] s = PROCESSING -> "processing"
    [] s = DONE -> "done"

StatusOfValue(v) ==
  CASE v = "uninitialized" -> UNINITIALIZED
    [] v = "processing" -> PROCESSING
    [] v = "done" -> DONE

\* variant: the status argument is dropped and a ticket starts as PROCESSING
Ticket_StartsProcessing(id, question, status, created_at, updated_at) ==
  [id |-> id, question |-> question, status |-> PROCESSING,
   created_at |-> created_at, updated_at |-> updated_at,
   answer |-> None, note |-> None]

\* Ticket(id=..., question=..., status=..., created_at=..., updated_at=...)
Ticket(id, question, status, created_at, updated_at) ==
  [id |-> id, question |-> question, status |-> status,
   created_at |-> created_at, updated_at |-> updated_at,
   answer |-> None, note |-> None]

\* ticket.model_dump_json()
model_dump_json(t) == [t EXCEPT !.status = StatusValue(t.status)]

\* variant: the stored JSON is handed back as parsed, its status still the
\* serialised value
model_validate_json_Unvalidated(j) == j

\* Ticket.model_validate_json(ticket_data)
model_validate_json(j) == [j EXCEPT !.status = StatusOfValue(j.status)]

\* ------------------------------------------------------ ticket repository
AttemptOutcomes == [1..max_retries -> {"ok", "err"}]
AllOk == [i \in 1..max_retries |-> "ok"]

RECURSIVE get_ticket_attempt(_, _, _)
\* the retry loop of get_ticket from attempt number `attempt` (0-based) on
get_ticket_attempt(attempt, outcomes, raw) ==
  IF attempt >= max_retries
    THEN [kind |-> "ok", ticket |-> Nothing, attempts |-> attempt]
    ELSE IF outcomes[attempt + 1] = "ok"
      THEN [kind |-> "ok",
            ticket |-> IF raw = Nothing THEN Nothing
                       ELSE Some(model_validate_json(raw[1])),
            attempts |-> attempt + 1]
      ELSE IF attempt = max_retries - 1
        THEN [kind |-> "DatabaseException", ticket |-> Nothing,
              attempts |-> attempt + 1]
        ELSE get_ticket_attempt(attempt + 1, outcomes, raw)

\* variant: the loop starts at its second attempt, one attempt short
get_ticket_TwoAttempts(outcomes, raw) == get_ticket_attempt(1, outcomes, raw)

\* RedisTicketRepository.get_ticket; raw is the value under ticket:<id>
get_ticket(outcomes, raw) == get_ticket_attempt(0, outcomes, raw)

\* redis_client.get(ticket_key): the stored string, or nothing
redis_get(st, id) == IF id \in DOMAIN st THEN Some(st[id]) ELSE Nothing

\* redis_client.set(ticket_key, value)
redis_set(st, id, value) ==
  [k \in DOMAIN st \cup {id} |-> IF k = id THEN value ELSE st[k]]

\* variant: SET ... NX, an existing key is not overwritten
save_ticket_IfAbsent(st, ticket) ==
  IF ticket.id \in DOMAIN st THEN st
  ELSE redis_set(st, ticket.id, model_dump_json(ticket))

\* RedisTicketRepository.save_ticket, the successful SET
save_ticket(st, ticket) == redis_set(st, ticket.id, model_dump_json(ticket))

\* RedisTicketRepository.update_ticket
update_ticket(st, ticket) ==
  save_ticket(st, [ticket EXCEPT !.updated_at = ticket.updated_at])

\* ---------------------------------------------------------- ticket service
\* variant: a missing key is reported as a failure of the store
get_ticket_data_MissingAsError(outcomes, raw) ==
  LET r == get_ticket(outcomes, raw)
  IN IF r.kind = "ok" /\ r.ticket = Nothing
       THEN [r EXCEPT !.kind = "DatabaseException"]
       ELSE r

\* TicketService.get_ticket_data
get_ticket_data(outcomes, raw) ==
  LET r == get_ticket(outcomes, raw)
  IN IF r.kind = "ok" /\ r.ticket = Nothing
       THEN [r EXCEPT !.kind = "TicketNotFoundException"]
       ELSE r

\* TicketService.get_ticket_status: the projection of get_ticket_data
get_ticket_status(outcomes, raw) ==
  LET r == get_ticket_data(outcomes, raw)
  IN IF r.kind = "ok" THEN [r EXCEPT !.ticket = Some(r.ticket[1].status)] ELSE r

\* variant: the status update also stamps created_at
update_ticket_status_StampsCreatedAt(ticket, status, now) ==
  [ticket EXCEPT !.status = status, !.updated_at = now, !.created_at = now]

\* variant: the status update stores DONE whatever status it is given
update_ticket_status_AlwaysDone(ticket, status, now) ==
  [ticket EXCEPT !.status = DONE, !.updated_at = now]

\* TicketService.update_ticket_status, the mutation of the loaded ticket
update_ticket_status(ticket, status, now) ==
  [ticket EXCEPT !.status = status, !.updated_at = now]

\* variant: the answer is stored but the status is left as it was
update_ticket_answer_KeepsStatus(ticket, answer, now) ==
  [ticket EXCEPT !.answer = answer, !.updated_at = now]

\* TicketService.update_ticket_answer, the mutation of the loaded ticket
update_ticket_answer(ticket, answer, now) ==
  [ticket EXCEPT !.answer = answer, !.status = DONE, !.updated_at = now]

\* RedisStreamProducer.publish: the entry handed to XADD
message_data(topic, message) == [topic |-> topic, data |-> message]

\* json.dumps(message) and json.loads(data)
json_dumps(message) == [decodable |-> TRUE, value |-> message]
json_loads(data) == data.value

\* a string that json.loads rejects (json.JSONDecodeError)
undecodable == [decodable |-> FALSE, value |-> [text |-> "{"]]
\* the JSON documents "[]" (decodable, not a mapping) and "{}"
json_list == [json_list |-> TRUE]
empty_mapping == [json_mapping |-> TRUE]
\* a decoded payload that has .get (a dict)
is_mapping(message) == "json_list" \notin DOMAIN message
\* another topic on the same stream
OtherTopic == "ticket.updated"
Topics == {TicketCreatedTopic, OtherTopic}
\* the calls of InMemoryMessageBroker.subscribe
Subscriptions == 1..MaxSubs

\* ------------------------------------------------------------------ state
VARIABLES
  store,          \* Redis keys ticket:<id> -> serialised ticket
  clock,          \* datetime.now()
  nextId,         \* the next fresh uuid4
  cpc,            \* per created id: how far its create_ticket call got
  stream,         \* the Redis stream, entries in XADD order (id = position)
  groupExists,    \* the consumer group exists on the stream
  lastDelivered,  \* the group's last-delivered-id
  pending,        \* the group's pending entries list: <<entry id, consumer>>
  wpc,            \* per consumer: position of its start_processing/subscribe
  wmsg,           \* per consumer: the message_id its generator holds
  yielded,        \* per consumer: the message ids subscribe yielded, in order
  units,          \* the units of work (process_ticket tasks, service calls)
  faults,         \* the failed calls so far
  messages,       \* InMemoryMessageBroker._messages: per topic, the log
  callbacks,      \* InMemoryMessageBroker._callbacks: per topic, the
                  \* subscriptions whose on_message is registered, in order
  queue,          \* per in-memory subscription: its asyncio.Queue
  consumed,       \* per in-memory subscription: the messages it yielded
  spc,            \* per in-memory subscription: position of its generator
  tickets,        \* _ticket_repository.tickets, the module-level singleton
  ownTickets,     \* _ticket_processor.repository.tickets, its private one
  mtasks,         \* the process_ticket tasks of InMemoryTicketProcessor
  llmCalls        \* calls of InMemoryLLMService.process_query so far

\* the state of the in-memory broker of noredis.py.  A message is identified
\* by its position in the log of its topic
procVars == << tickets, ownTickets, mtasks, llmCalls >>
memVars == << messages, callbacks, queue, consumed, spc, procVars >>

vars == << store, clock, nextId, cpc, stream, groupExists, lastDelivered,
           pending, wpc, wmsg, yielded, units, faults, memVars >>

brokerVars == << stream, groupExists, lastDelivered, pending >>
workerVars == << wpc, wmsg, yielded >>
createVars == << nextId, cpc >>

\* the environment a specification allows: with faults a call may fail.  A
\* read of the store is a sequence of attempts; it fails as a call when every
\* attempt fails.
CallOutcomes(faulty) ==
  IF faulty /\ faults < MaxFaults THEN {"ok", "error"} ELSE {"ok"}
ReadOutcomes(faulty) ==
  IF faulty /\ faults < MaxFaults
    THEN AttemptOutcomes
    ELSE {o \in AttemptOutcomes : \E i \in 1..max_retries : o[i] = "ok"}
CallCost(o) == IF o = "error" THEN 1 ELSE 0
ReadCost(o) == IF \A i \in 1..max_retries : o[i] = "err" THEN 1 ELSE 0

IdleUnit ==
  [pc |-> "idle", mode |-> "none", tid |-> UnknownId, q |-> None,
   loc |-> Nothing, status |-> None, answer |-> None, err |-> "none",
   msg |-> 0, origin |-> "none", writes |-> 0]

Init ==
  /\ store = [k \in {} |-> None]
  /\ clock = 1
  /\ nextId = 1
  /\ cpc = [t \in TicketIds |-> "none"]
  /\ stream = << >>
  /\ groupExists = FALSE
  /\ lastDelivered = 0
  /\ pending = {}
  /\ wpc = [c \in Consumers |-> "ensure"]
  /\ wmsg = [c \in Consumers |-> 0]
  /\ yielded = [c \in Consumers |-> << >>]
  /\ units = [u \in Units |-> IdleUnit]
  /\ faults = 0
  /\ messages = [tp \in Topics |-> << >>]
  /\ callbacks = [tp \in Topics |-> << >>]
  /\ queue = [s \in Subscriptions |-> << >>]
  /\ consumed = [s \in Subscriptions |-> << >>]
  /\ spc = [s \in Subscriptions |-> "new"]
  /\ tickets = [k \in {} |-> None]
  /\ ownTickets = [k \in {} |-> None]
  /\ mtasks = << >>
  /\ llmCalls = 0

\* ------------------------------------------------------------ clock
\* time passes between two reads of datetime.now()
Tick ==
  /\ clock < MaxClock
  /\ clock' = clock + 1
  /\ UNCHANGED << store, createVars, brokerVars, workerVars, units, faults >>
  /\ UNCHANGED memVars

\* ---------------------------------------------------- TicketService.create
\* create_ticket up to and including `await save_ticket(ticket)`
CreateSave(limit, faulty) ==
  /\ nextId <= limit
  /\ \E question \in Questions, o \in CallOutcomes(faulty) :
       /\ faults' = faults + CallCost(o)
       /\ LET ticket_id == nextId
              current_time == clock
              ticket == Ticket(ticket_id, question, UNINITIALIZED,
                               current_time, current_time)
          IN /\ nextId' = nextId + 1
             /\ IF o = "ok"
                  THEN /\ store' = save_ticket(store, ticket)
                       /\ cpc' = [cpc EXCEPT ![ticket_id] = "saved"]
                  ELSE /\ store' = store
                       /\ cpc' = [cpc EXCEPT ![ticket_id] = "DatabaseException"]
  /\ UNCHANGED << clock, brokerVars, workerVars, units >>
  /\ UNCHANGED memVars

\* variant: the failure of save_ticket is swallowed and the event is published
CreatePublish_AfterFailedSave(ticket_id, faulty) ==
  /\ cpc[ticket_id] \in {"saved", "DatabaseException"}
  /\ \E o \in CallOutcomes(faulty) :
       /\ faults' = faults + CallCost(o)
       /\ IF o = "ok"
            THEN /\ stream' = Append(stream,
                        message_data(TicketCreatedTopic,
                                     json_dumps([ticket_id |-> ticket_id])))
                 /\ cpc' = [cpc EXCEPT ![ticket_id] = "returned"]
            ELSE /\ stream' = stream
                 /\ cpc' = [cpc EXCEPT ![ticket_id] = "MessageBrokerException"]
  /\ UNCHANGED << store, clock, nextId, groupExists, lastDelivered, pending,
                  workerVars, units >>
  /\ UNCHANGED memVars

\* variant: create_ticket undoes the save when the publish fails
CreatePublish_RollsBack(ticket_id, faulty) ==
  /\ cpc[ticket_id] = "saved"
  /\ \E o \in CallOutcomes(faulty) :
       /\ faults' = faults + CallCost(o)
       /\ IF o = "ok"
            THEN /\ stream' = Append(stream,
                        message_data(TicketCreatedTopic,
                                     json_dumps([ticket_id |-> ticket_id])))
                 /\ cpc' = [cpc EXCEPT ![ticket_id] = "returned"]
                 /\ store' = store
            ELSE /\ stream' = stream
                 /\ cpc' = [cpc EXCEPT ![ticket_id] = "MessageBrokerException"]
                 /\ store' = [k \in DOMAIN store \ {ticket_id} |-> store[k]]
  /\ UNCHANGED << clock, nextId, groupExists, lastDelivered, pending,
                  workerVars, units >>
  /\ UNCHANGED memVars

\* create_ticket from `await publish(...)` to its return
CreatePublish(ticket_id, faulty) ==
  /\ cpc[ticket_id] = "saved"
  /\ \E o \in CallOutcomes(faulty) :
       /\ faults' = faults + CallCost(o)
       /\ IF o = "ok"
            THEN /\ stream' = Append(stream,
                        message_data(TicketCreatedTopic,
                                     json_dumps([ticket_id |-> ticket_id])))
                 /\ cpc' = [cpc EXCEPT ![ticket_id] = "returned"]
            ELSE /\ stream' = stream
                 /\ cpc' = [cpc EXCEPT ![ticket_id] = "MessageBrokerException"]
  /\ UNCHANGED << store, clock, nextId, groupExists, lastDelivered, pending,
                  workerVars, units >>
  /\ UNCHANGED memVars

\* ----------------------------------------------------- units of work
IdleUnits == {u \in Units : units[u].pc = "idle"}
\* the task slot asyncio.create_task takes
FreeUnit == CHOOSE u \in IdleUnits : \A v \in IdleUnits : u <= v

\* variant: process_ticket passes DONE to update_ticket_status
create_task_StatusDone(us, u, ticket_id, message_id) ==
  [us EXCEPT ![u] = [IdleUnit EXCEPT !.pc = "get", !.mode = "process",
                                     !.tid = ticket_id,
                                     !.status = DONE,
                                     !.msg = message_id,
                                     !.origin = "worker"]]

\* asyncio.create_task(self.process_ticket(ticket_id))
create_task(us, u, ticket_id, message_id) ==
  [us EXCEPT ![u] = [IdleUnit EXCEPT !.pc = "get", !.mode = "process",
                                     !.tid = ticket_id,
                                     !.status = PROCESSING,
                                     !.msg = message_id,
                                     !.origin = "worker"]]

\* the exception leaves the call: process_ticket logs it, the task ends
Raise(u, exc) ==
  units' = [units EXCEPT ![u].pc = "done", ![u].err = exc, ![u].loc = Nothing]

\* variant: a ticket that is not found is created empty before the error
UnitGet_CreatesMissing(u, faulty) ==
  /\ units[u].pc = "get"
  /\ \E o \in ReadOutcomes(faulty) :
       /\ faults' = faults + ReadCost(o)
       /\ LET r == get_ticket_data(o, redis_get(store, units[u].tid))
          IN IF r.kind = "ok"
               THEN /\ units' = [units EXCEPT ![u].pc = "status_get",
                                              ![u].q = r.ticket[1].question]
                    /\ store' = store
               ELSE /\ Raise(u, r.kind)
                    /\ store' = IF r.kind = "TicketNotFoundException"
                                  THEN save_ticket(store,
                                         Ticket(units[u].tid, None,
                                                UNINITIALIZED, clock, clock))
                                  ELSE store
  /\ UNCHANGED << clock, createVars, brokerVars, workerVars >>
  /\ UNCHANGED memVars

\* process_ticket: ticket = await get_ticket_data(ticket_id)
UnitGet(u, faulty) ==
  /\ units[u].pc = "get"
  /\ \E o \in ReadOutcomes(faulty) :
       /\ faults' = faults + ReadCost(o)
       /\ LET r == get_ticket_data(o, redis_get(store, units[u].tid))
          IN IF r.kind = "ok"
               THEN units' = [units EXCEPT ![u].pc = "status_get",
                                           ![u].q = r.ticket[1].question]
               ELSE Raise(u, r.kind)
  /\ UNCHANGED << store, clock, createVars, brokerVars, workerVars >>
  /\ UNCHANGED memVars

\* update_ticket_status: load the ticket, set status and updated_at
UnitStatusGet(u, faulty) ==
  /\ units[u].pc = "status_get"
  /\ \E o \in ReadOutcomes(faulty) :
       /\ faults' = faults + ReadCost(o)
       /\ LET r == get_ticket_data(o, redis_get(store, units[u].tid))
          IN IF r.kind = "ok"
               THEN units' = [units EXCEPT
                      ![u].pc = "status_save",
                      ![u].loc = Some(update_ticket_status(r.ticket[1],
                                                           units[u].status, clock))]
               ELSE Raise(u, r.kind)
  /\ UNCHANGED << store, clock, createVars, brokerVars, workerVars >>
  /\ UNCHANGED memVars

\* update_ticket_status: await update_ticket(ticket)
UnitStatusSave(u, faulty) ==
  /\ units[u].pc = "status_save"
  /\ \E o \in CallOutcomes(faulty) :
       /\ faults' = faults + CallCost(o)
       /\ IF o = "ok"
            THEN /\ store' = update_ticket(store, units[u].loc[1])
                 /\ units' = [units EXCEPT
                      ![u].pc = IF units[u].mode = "process" THEN "llm" ELSE "done",
                      ![u].loc = Nothing,
                      ![u].writes = @ + 1]
            ELSE /\ store' = store
                 /\ Raise(u, "DatabaseException")
  /\ UNCHANGED << clock, createVars, brokerVars, workerVars >>
  /\ UNCHANGED memVars

\* variant: a failed backend call puts the ticket back to UNINITIALIZED
UnitLLM_ResetsOnError(u, faulty) ==
  /\ units[u].pc = "llm"
  /\ \E o \in CallOutcomes(faulty), text \in Answers :
       /\ faults' = faults + CallCost(o)
       /\ IF o = "ok"
            THEN /\ units' = [units EXCEPT ![u].pc = "answer_get",
                                           ![u].answer = text]
                 /\ store' = store
            ELSE /\ Raise(u, "LLMServiceException")
                 /\ store' = update_ticket(store,
                               update_ticket_status(
                                 model_validate_json(store[units[u].tid]),
                                 UNINITIALIZED, clock))
  /\ UNCHANGED << clock, createVars, brokerVars, workerVars >>
  /\ UNCHANGED memVars

\* process_ticket: answer = await llm_service.process_query(ticket.question)
UnitLLM(u, faulty) ==
  /\ units[u].pc = "llm"
  /\ \E o \in CallOutcomes(faulty), text \in Answers :
       /\ faults' = faults + CallCost(o)
       /\ IF o = "ok"
            THEN units' = [units EXCEPT ![u].pc = "answer_get",
                                        ![u].answer = text]
            ELSE Raise(u, "LLMServiceException")
  /\ UNCHANGED << store, clock, createVars, brokerVars, workerVars >>
  /\ UNCHANGED memVars

\* update_ticket_answer: load the ticket, set answer, status and updated_at
UnitAnswerGet(u, faulty) ==
  /\ units[u].pc = "answer_get"
  /\ \E o \in ReadOutcomes(faulty) :
       /\ faults' = faults + ReadCost(o)
       /\ LET r == get_ticket_data(o, redis_get(store, units[u].tid))
          IN IF r.kind = "ok"
               THEN units' = [units EXCEPT
                      ![u].pc = "answer_save",
                      ![u].loc = Some(update_ticket_answer(r.ticket[1],
                                                           units[u].answer, clock))]
               ELSE Raise(u, r.kind)
  /\ UNCHANGED << store, clock, createVars, brokerVars, workerVars >>
  /\ UNCHANGED memVars

\* update_ticket_answer: await update_ticket(ticket)
UnitAnswerSave(u, faulty) ==
  /\ units[u].pc = "answer_save"
  /\ \E o \in CallOutcomes(faulty) :
       /\ faults' = faults + CallCost(o)
       /\ IF o = "ok"
            THEN /\ store' = update_ticket(store, units[u].loc[1])
                 /\ units' = [units EXCEPT ![u].pc = "done",
                                           ![u].loc = Nothing,
                                           ![u].writes = @ + 1]
            ELSE /\ store' = store
                 /\ Raise(u, "DatabaseException")
  /\ UNCHANGED << clock, createVars, brokerVars, workerVars >>
  /\ UNCHANGED memVars

UnitStep(u, faulty) ==
  \/ UnitGet(u, faulty)
  \/ UnitStatusGet(u, faulty)
  \/ UnitStatusSave(u, faulty)
  \/ UnitLLM(u, faulty)
  \/ UnitAnswerGet(u, faulty)
  \/ UnitAnswerSave(u, faulty)

\* ------------------------------------------- RedisStreamConsumer / worker
\* the group's view of an entry
Delivered(m) == m \in 1..lastDelivered
IsPending(m) == \E c \in Consumers : << m, c >> \in pending
Acked(m) == Delivered(m) /\ ~IsPending(m)

\* variant: the group is created at "$", after the entries already appended
EnsureConsumerGroup_AtEnd(c, faulty) ==
  /\ wpc[c] = "ensure"
  /\ \E o \in CallOutcomes(faulty) :
       /\ faults' = faults + CallCost(o)
       /\ IF o = "ok" /\ ~groupExists
            THEN /\ groupExists' = TRUE
                 /\ lastDelivered' = Len(stream)
            ELSE UNCHANGED << groupExists, lastDelivered >>
  /\ wpc' = [wpc EXCEPT ![c] = "read"]
  /\ UNCHANGED << store, clock, createVars, stream, pending, wmsg, yielded,
                  units >>
  /\ UNCHANGED memVars

\* variant: every successful bootstrap sets the group's cursor back to "0"
EnsureConsumerGroup_Resets(c, faulty) ==
  /\ wpc[c] = "ensure"
  /\ \E o \in CallOutcomes(faulty) :
       /\ faults' = faults + CallCost(o)
       /\ IF o = "ok"
            THEN /\ groupExists' = TRUE
                 /\ lastDelivered' = 0
            ELSE UNCHANGED << groupExists, lastDelivered >>
  /\ wpc' = [wpc EXCEPT ![c] = "read"]
  /\ UNCHANGED << store, clock, createVars, stream, pending, wmsg, yielded,
                  units >>
  /\ UNCHANGED memVars

\* subscribe: await self._ensure_consumer_group()  (XGROUP CREATE ... id="0")
EnsureConsumerGroup(c, faulty) ==
  /\ wpc[c] = "ensure"
  /\ \E o \in CallOutcomes(faulty) :
       /\ faults' = faults + CallCost(o)
       /\ IF o = "ok" /\ ~groupExists
            THEN /\ groupExists' = TRUE
                 /\ lastDelivered' = 0
            ELSE UNCHANGED << groupExists, lastDelivered >>
  /\ wpc' = [wpc EXCEPT ![c] = "read"]
  /\ UNCHANGED << store, clock, createVars, stream, pending, wmsg, yielded,
                  units >>
  /\ UNCHANGED memVars

\* variant: a record whose handling raised is acknowledged like any other
LoopBody_AcksOnError(c, message, message_id) ==
  /\ wpc' = [wpc EXCEPT ![c] = "ack"]
  /\ wmsg' = [wmsg EXCEPT ![c] = message_id]
  /\ IF is_mapping(message) /\ "ticket_id" \in DOMAIN message
       THEN /\ IdleUnits # {}
            /\ units' = create_task(units, FreeUnit,
                                    message.ticket_id, message_id)
       ELSE units' = units

\* start_processing: the body of the `async for` for one yielded payload,
\* which runs before the generator is resumed.  message.get on a payload that
\* is not a mapping raises AttributeError, which leaves the `async for` for
\* the except branch; the generator, suspended at its yield, is abandoned
LoopBody(c, message, message_id) ==
  IF ~is_mapping(message)
    THEN /\ wpc' = [wpc EXCEPT ![c] = "restart"]
         /\ wmsg' = [wmsg EXCEPT ![c] = 0]
         /\ units' = units
    ELSE /\ wpc' = [wpc EXCEPT ![c] = "ack"]
         /\ wmsg' = [wmsg EXCEPT ![c] = message_id]
         /\ IF "ticket_id" \in DOMAIN message
              THEN /\ IdleUnits # {}
                   /\ units' = create_task(units, FreeUnit,
                                           message.ticket_id, message_id)
              ELSE units' = units

\* variant: the group hands out the newest entries first
XReadGroup_NewestFirst(c, faulty) ==
  /\ wpc[c] = "read"
  /\ \E o \in CallOutcomes(faulty) :
       /\ faults' = faults + CallCost(o)
       /\ IF o = "error" \/ ~groupExists
            THEN /\ wpc' = [wpc EXCEPT ![c] = "backoff"]
                 /\ UNCHANGED << lastDelivered, pending, wmsg, yielded, units >>
            ELSE /\ lastDelivered < Len(stream)
                 /\ LET message_id == Len(stream) - lastDelivered
                        entry == stream[message_id]
                    IN /\ lastDelivered' = lastDelivered + 1
                       /\ pending' = pending \cup {<< message_id, c >>}
                       /\ IF entry.topic # TicketCreatedTopic
                            THEN UNCHANGED << wpc, wmsg, yielded, units >>
                            ELSE IF ~entry.data.decodable
                              THEN /\ wpc' = [wpc EXCEPT ![c] = "ack"]
                                   /\ wmsg' = [wmsg EXCEPT ![c] = message_id]
                                   /\ UNCHANGED << yielded, units >>
                              ELSE LET message == json_loads(entry.data)
                                   IN /\ yielded' = [yielded EXCEPT
                                           ![c] = Append(@, message_id)]
                                      /\ LoopBody(c, message, message_id)
  /\ UNCHANGED << store, clock, createVars, stream, groupExists >>
  /\ UNCHANGED memVars

\* variant: every consumer reads the stream from its own cursor (a plain
\* XREAD), so the group does not share the records out
XReadGroup_OwnCursor(c, faulty) ==
  /\ wpc[c] = "read"
  /\ \E o \in CallOutcomes(faulty) :
       /\ faults' = faults + CallCost(o)
       /\ IF o = "error" \/ ~groupExists
            THEN /\ wpc' = [wpc EXCEPT ![c] = "backoff"]
                 /\ UNCHANGED << lastDelivered, pending, wmsg, yielded, units >>
            ELSE /\ Len(yielded[c]) < Len(stream)
                 /\ LET message_id == Len(yielded[c]) + 1
                        entry == stream[message_id]
                    IN /\ lastDelivered' = IF message_id > lastDelivered
                                             THEN message_id ELSE lastDelivered
                       /\ pending' = pending \cup {<< message_id, c >>}
                       /\ IF entry.topic # TicketCreatedTopic
                            THEN UNCHANGED << wpc, wmsg, yielded, units >>
                            ELSE IF ~entry.data.decodable
                              THEN /\ wpc' = [wpc EXCEPT ![c] = "ack"]
                                   /\ wmsg' = [wmsg EXCEPT ![c] = message_id]
                                   /\ UNCHANGED << yielded, units >>
                              ELSE LET message == json_loads(entry.data)
                                   IN /\ yielded' = [yielded EXCEPT
                                           ![c] = Append(@, message_id)]
                                      /\ LoopBody(c, message, message_id)
  /\ UNCHANGED << store, clock, createVars, stream, groupExists >>
  /\ UNCHANGED memVars

\* variant: the loop awaits process_ticket before it asks for the next record
XReadGroup_AwaitsProcessing(c, faulty) ==
  /\ wpc[c] = "read"
  /\ \A u \in Units : units[u].pc \in {"idle", "done"}
  /\ \E o \in CallOutcomes(faulty) :
       /\ faults' = faults + CallCost(o)
       /\ IF o = "error" \/ ~groupExists
            THEN /\ wpc' = [wpc EXCEPT ![c] = "backoff"]
                 /\ UNCHANGED << lastDelivered, pending, wmsg, yielded, units >>
            ELSE /\ lastDelivered < Len(stream)
                 /\ LET message_id == lastDelivered + 1
                        entry == stream[message_id]
                    IN /\ lastDelivered' = message_id
                       /\ pending' = pending \cup {<< message_id, c >>}
                       /\ IF entry.topic # TicketCreatedTopic
                            THEN UNCHANGED << wpc, wmsg, yielded, units >>
                            ELSE IF ~entry.data.decodable
                              THEN /\ wpc' = [wpc EXCEPT ![c] = "ack"]
                                   /\ wmsg' = [wmsg EXCEPT ![c] = message_id]
                                   /\ UNCHANGED << yielded, units >>
                              ELSE LET message == json_loads(entry.data)
                                   IN /\ yielded' = [yielded EXCEPT
                                           ![c] = Append(@, message_id)]
                                      /\ LoopBody(c, message, message_id)
  /\ UNCHANGED << store, clock, createVars, stream, groupExists >>
  /\ UNCHANGED memVars

\* subscribe: XREADGROUP with last_id ">" and count=1, then the handling of
\* the entry read, up to the point where the generator awaits again; for a
\* yielded payload this includes the body of the `async for` in
\* start_processing, which runs before the generator is resumed
XReadGroup(c, faulty) ==
  /\ wpc[c] = "read"
  /\ \E o \in CallOutcomes(faulty) :
       /\ faults' = faults + CallCost(o)
       /\ IF o = "error" \/ ~groupExists
            THEN /\ wpc' = [wpc EXCEPT ![c] = "backoff"]
                 /\ UNCHANGED << lastDelivered, pending, wmsg, yielded, units >>
            ELSE /\ lastDelivered < Len(stream)
                 /\ LET message_id == lastDelivered + 1
                        entry == stream[message_id]
                    IN /\ lastDelivered' = message_id
                       /\ pending' = pending \cup {<< message_id, c >>}
                       /\ IF entry.topic # TicketCreatedTopic
                            THEN UNCHANGED << wpc, wmsg, yielded, units >>
                            ELSE IF ~entry.data.decodable
                              THEN /\ wpc' = [wpc EXCEPT ![c] = "ack"]
                                   /\ wmsg' = [wmsg EXCEPT ![c] = message_id]
                                   /\ UNCHANGED << yielded, units >>
                              ELSE LET message == json_loads(entry.data)
                                   IN /\ yielded' = [yielded EXCEPT
                                           ![c] = Append(@, message_id)]
                                      /\ LoopBody(c, message, message_id)
  /\ UNCHANGED << store, clock, createVars, stream, groupExists >>
  /\ UNCHANGED memVars

\* variant: the xack acknowledges everything its consumer holds
XAck_AllOfConsumer(c, faulty) ==
  /\ wpc[c] = "ack"
  /\ \E o \in CallOutcomes(faulty) :
       /\ faults' = faults + CallCost(o)
       /\ IF o = "ok"
            THEN /\ pending' = {p \in pending : p[2] # c}
                 /\ wpc' = [wpc EXCEPT ![c] = "read"]
            ELSE /\ pending' = pending
                 /\ wpc' = [wpc EXCEPT ![c] = "backoff"]
  /\ wmsg' = [wmsg EXCEPT ![c] = 0]
  /\ UNCHANGED << store, clock, createVars, stream, groupExists,
                  lastDelivered, yielded, units >>
  /\ UNCHANGED memVars

\* variant: only a record that was yielded is acknowledged
XAck_OnlyYielded(c, faulty) ==
  /\ wpc[c] = "ack"
  /\ \E o \in CallOutcomes(faulty) :
       /\ faults' = faults + CallCost(o)
       /\ IF o = "ok"
            THEN /\ pending' = {p \in pending :
                                  \/ p[1] # wmsg[c]
                                  \/ \A i \in 1..Len(yielded[c]) :
                                       yielded[c][i] # wmsg[c]}
                 /\ wpc' = [wpc EXCEPT ![c] = "read"]
            ELSE /\ pending' = pending
                 /\ wpc' = [wpc EXCEPT ![c] = "backoff"]
  /\ wmsg' = [wmsg EXCEPT ![c] = 0]
  /\ UNCHANGED << store, clock, createVars, stream, groupExists,
                  lastDelivered, yielded, units >>
  /\ UNCHANGED memVars

\* subscribe: await xack(stream_key, group_name, message_id)
XAck(c, faulty) ==
  /\ wpc[c] = "ack"
  /\ \E o \in CallOutcomes(faulty) :
       /\ faults' = faults + CallCost(o)
       /\ IF o = "ok"
            THEN /\ pending' = {p \in pending : p[1] # wmsg[c]}
                 /\ wpc' = [wpc EXCEPT ![c] = "read"]
            ELSE /\ pending' = pending
                 /\ wpc' = [wpc EXCEPT ![c] = "backoff"]
  /\ wmsg' = [wmsg EXCEPT ![c] = 0]
  /\ UNCHANGED << store, clock, createVars, stream, groupExists,
                  lastDelivered, yielded, units >>
  /\ UNCHANGED memVars

\* variant: the consumer creates its group again after a failed read
Backoff_RecreatesGroup(c) ==
  /\ wpc[c] = "backoff"
  /\ wpc' = [wpc EXCEPT ![c] = "ensure"]
  /\ UNCHANGED << store, clock, createVars, brokerVars, wmsg, yielded, units,
                  faults >>
  /\ UNCHANGED memVars

\* variant: the consumer gives the subscription up after a failed read
Backoff_GivesUp(c) ==
  /\ wpc[c] = "backoff"
  /\ wpc' = [wpc EXCEPT ![c] = "stopped"]
  /\ UNCHANGED << store, clock, createVars, brokerVars, wmsg, yielded, units,
                  faults >>
  /\ UNCHANGED memVars

\* subscribe: except Exception: await asyncio.sleep(1), then the loop again
Backoff(c) ==
  /\ wpc[c] = "backoff"
  /\ wpc' = [wpc EXCEPT ![c] = "read"]
  /\ UNCHANGED << store, clock, createVars, brokerVars, wmsg, yielded, units,
                  faults >>
  /\ UNCHANGED memVars

WorkerStep(c, faulty) ==
  \/ EnsureConsumerGroup(c, faulty)
  \/ XReadGroup(c, faulty)
  \/ XAck(c, faulty)

\* the subscribe loop with its retry after a failed call
WorkerLoop(c) == WorkerStep(c, TRUE) \/ Backoff(c)

\* ------------------------------------------------------- specifications
\* the program as main.py starts it: create_ticket calls and the one worker
\* process (worker.py); the store, the broker and the backend may fail
Next ==
  \/ Tick
  \/ CreateSave(MaxTickets, TRUE)
  \/ \E t \in TicketIds : CreatePublish(t, TRUE)
  \/ EnsureConsumerGroup(DefaultConsumer, TRUE)
  \/ XReadGroup(DefaultConsumer, TRUE)
  \/ XAck(DefaultConsumer, TRUE)
  \/ Backoff(DefaultConsumer)
  \/ \E u \in Units : UnitGet(u, TRUE)
  \/ \E u \in Units : UnitStatusGet(u, TRUE)
  \/ \E u \in Units : UnitStatusSave(u, TRUE)
  \/ \E u \in Units : UnitLLM(u, TRUE)
  \/ \E u \in Units : UnitAnswerGet(u, TRUE)
  \/ \E u \in Units : UnitAnswerSave(u, TRUE)

Spec == Init /\ [][Next]_vars

\* the program with calls that may fail, the worker task and every unit of
\* work being scheduled whenever they can run
FairSpec ==
  /\ Spec
  /\ WF_vars(WorkerLoop(DefaultConsumer))
  /\ \A u \in Units : WF_vars(UnitStep(u, TRUE))

\* the same program when the store, the broker and the backend never fail and
\* the worker task and every unit of work keep being scheduled (asyncio runs
\* every ready task)
LiveNext ==
  \/ Tick
  \/ CreateSave(MaxTickets, FALSE)
  \/ \E t \in TicketIds : CreatePublish(t, FALSE)
  \/ EnsureConsumerGroup(DefaultConsumer, FALSE)
  \/ XReadGroup(DefaultConsumer, FALSE)
  \/ XAck(DefaultConsumer, FALSE)
  \/ \E u \in Units : UnitGet(u, FALSE)
  \/ \E u \in Units : UnitStatusGet(u, FALSE)
  \/ \E u \in Units : UnitStatusSave(u, FALSE)
  \/ \E u \in Units : UnitLLM(u, FALSE)
  \/ \E u \in Units : UnitAnswerGet(u, FALSE)
  \/ \E u \in Units : UnitAnswerSave(u, FALSE)

LiveSpec ==
  /\ Init
  /\ [][LiveNext]_vars
  /\ WF_vars(WorkerStep(DefaultConsumer, FALSE))
  /\ \A u \in Units : WF_vars(UnitStep(u, FALSE))

\* a second unit of work for a ticket that already has one: process_ticket
\* run again for the record of an earlier unit (the record handled twice)
DuplicateUnit(u) ==
  /\ units[u].mode = "process"
  /\ Cardinality({v \in Units : units[v].origin = "duplicate"}) < MaxExtra
  /\ IdleUnits # {}
  /\ units' = [create_task(units, FreeUnit, units[u].tid, units[u].msg)
                 EXCEPT ![FreeUnit].origin = "duplicate"]
  /\ UNCHANGED << store, clock, createVars, brokerVars, workerVars, faults >>
  /\ UNCHANGED memVars

\* one ticket processed by the worker and, concurrently, once more
DupNext ==
  \/ Tick
  \/ CreateSave(FewTickets, TRUE)
  \/ \E t \in TicketIds : CreatePublish(t, TRUE)
  \/ EnsureConsumerGroup(DefaultConsumer, TRUE)
  \/ XReadGroup(DefaultConsumer, TRUE)
  \/ XAck(DefaultConsumer, TRUE)
  \/ Backoff(DefaultConsumer)
  \/ \E u \in Units : UnitGet(u, TRUE)
  \/ \E u \in Units : UnitStatusGet(u, TRUE)
  \/ \E u \in Units : UnitStatusSave(u, TRUE)
  \/ \E u \in Units : UnitLLM(u, TRUE)
  \/ \E u \in Units : UnitAnswerGet(u, TRUE)
  \/ \E u \in Units : UnitAnswerSave(u, TRUE)
  \/ \E u \in Units : DuplicateUnit(u)

DupSpec == Init /\ [][DupNext]_vars

\* a direct call of TicketService.update_ticket_status(ticket_id, status)
CallUpdateTicketStatus(ticket_id, status) ==
  /\ Cardinality({v \in Units : units[v].origin = "call"}) < MaxCalls
  /\ IdleUnits # {}
  /\ units' = [units EXCEPT ![FreeUnit] =
                 [IdleUnit EXCEPT !.pc = "status_get", !.mode = "update_status",
                                  !.tid = ticket_id, !.status = status,
                                  !.origin = "call"]]
  /\ UNCHANGED << store, clock, createVars, brokerVars, workerVars, faults >>
  /\ UNCHANGED memVars

\* a direct call of TicketService.update_ticket_answer(ticket_id, answer)
CallUpdateTicketAnswer(ticket_id, answer) ==
  /\ Cardinality({v \in Units : units[v].origin = "call"}) < MaxCalls
  /\ IdleUnits # {}
  /\ units' = [units EXCEPT ![FreeUnit] =
                 [IdleUnit EXCEPT !.pc = "answer_get", !.mode = "update_answer",
                                  !.tid = ticket_id, !.answer = answer,
                                  !.origin = "call"]]
  /\ UNCHANGED << store, clock, createVars, brokerVars, workerVars, faults >>
  /\ UNCHANGED memVars

\* the Ticket Service on its own: its operations called directly, with any
\* arguments, by concurrent callers
ServiceNext ==
  \/ Tick
  \/ CreateSave(FewTickets, TRUE)
  \/ \E t \in TicketIds : CreatePublish(t, TRUE)
  \/ \E id \in Ids, st \in TicketStatus : CallUpdateTicketStatus(id, st)
  \/ \E id \in Ids, a \in Answers : CallUpdateTicketAnswer(id, a)
  \/ \E u \in Units : UnitStatusGet(u, TRUE)
  \/ \E u \in Units : UnitStatusSave(u, TRUE)
  \/ \E u \in Units : UnitAnswerGet(u, TRUE)
  \/ \E u \in Units : UnitAnswerSave(u, TRUE)

ServiceSpec == Init /\ [][ServiceNext]_vars

\* several workers of one consumer group (one process per consumer name)
\* reading the stream create_ticket publishes to; no call fails and every
\* worker keeps being scheduled.  The units of work the workers spawn stay
\* where create_task put them: they touch neither the stream nor the group
GroupNext ==
  \/ Tick
  \/ CreateSave(MaxTickets, FALSE)
  \/ \E t \in TicketIds : CreatePublish(t, FALSE)
  \/ \E c \in Consumers : EnsureConsumerGroup(c, FALSE)
  \/ \E c \in Consumers : XReadGroup(c, FALSE)
  \/ \E c \in Consumers : XAck(c, FALSE)

GroupSpec ==
  /\ Init
  /\ [][GroupNext]_vars
  /\ \A c \in Consumers : WF_vars(WorkerStep(c, FALSE))

\* ------------------------------------------------------------- claims
\* the ticket stored under an id, as get_ticket decodes it
StoredTicket(t) == model_validate_json(store[t])
\* the ticket id an entry of the stream carries
EventTicket(m) == json_loads(stream[m].data).ticket_id
Events == {m \in 1..Len(stream) : stream[m].topic = TicketCreatedTopic}
\* the units of work process_ticket runs for a ticket
ProcessUnits(t) == {u \in Units : units[u].mode = "process" /\ units[u].tid = t}
\* the read attempts on which the store answers at least once
Answering == {o \in AttemptOutcomes : \E i \in 1..max_retries : o[i] = "ok"}

\* C1: every ticket.created event in the stream carries the id of a ticket
\* that is in the store; an event exists only for a create_ticket call whose
\* save_ticket succeeded, and none for a call whose save_ticket failed.
C1_PersistBeforePublish ==
  /\ \A m \in Events : EventTicket(m) \in DOMAIN store
  /\ \A m \in Events : cpc[EventTicket(m)] = "returned"
  /\ \A t \in TicketIds :
       cpc[t] = "DatabaseException" =>
         /\ t \notin DOMAIN store
         /\ \A m \in Events : EventTicket(m) # t

\* one call published its event, another call's save_ticket failed
C1_Witness ==
  /\ \E m \in Events : EventTicket(m) \in DOMAIN store
  /\ \E t \in TicketIds : cpc[t] = "DatabaseException"

\* C2: with a subscribed worker and calls that succeed, every ticket whose
\* create_ticket returned eventually is DONE with an answer.
C2_Liveness ==
  \A t \in TicketIds :
    (cpc[t] = "returned") ~>
      (/\ t \in DOMAIN store
       /\ StoredTicket(t).status = DONE
       /\ StoredTicket(t).answer \in Answers)

\* every created ticket has been processed to DONE
C2_Witness ==
  \A t \in TicketIds :
    /\ cpc[t] = "returned"
    /\ StoredTicket(t).status = DONE
    /\ \E u \in ProcessUnits(t) :
         units[u].pc = "done" /\ StoredTicket(t).answer = units[u].answer

\* C3: from the return of create_ticket until the first write of a unit of
\* work for the ticket, the stored ticket is UNINITIALIZED, has no answer and
\* equal created_at and updated_at, and get_ticket_status, whenever the store
\* can be read, returns UNINITIALIZED.
C3_UninitializedUntilFirstWrite ==
  \A t \in TicketIds :
    (cpc[t] = "returned" /\ \A u \in ProcessUnits(t) : units[u].writes = 0) =>
      /\ t \in DOMAIN store
      /\ StoredTicket(t).status = UNINITIALIZED
      /\ StoredTicket(t).answer = None
      /\ StoredTicket(t).created_at = StoredTicket(t).updated_at
      /\ \A o \in Answering :
           LET r == get_ticket_status(o, redis_get(store, t))
           IN r.kind = "ok" /\ r.ticket = Some(UNINITIALIZED)

\* a unit of work has loaded the ticket and is about to make its first write,
\* at a later time than the creation
C3_Witness ==
  \E t \in TicketIds, u \in Units :
    /\ cpc[t] = "returned"
    /\ u \in ProcessUnits(t)
    /\ units[u].pc = "status_save"
    /\ units[u].writes = 0
    /\ clock > StoredTicket(t).created_at

\* C4: a record is acknowledged only once the unit of work spawned for it has
\* finished with the DONE write persisted; never while it is in flight or
\* after it failed.
C4_AckOnlyAfterDone ==
  \A u \in Units :
    (units[u].origin = "worker" /\ Acked(units[u].msg)) =>
      (units[u].pc = "done" /\ units[u].err = "none")

\* a delivered, unacknowledged record that no generator holds for its xack
Abandoned(m) == IsPending(m) /\ \A c \in Consumers : wmsg[c] # m
\* how many times subscribe yielded the record, over all consumers
DeliveryCount(m) ==
  Cardinality({p \in Consumers \X (1..MaxTickets) :
                 p[2] <= Len(yielded[p[1]]) /\ yielded[p[1]][p[2]] = m})

\* C5: a record that was delivered and is left unacknowledged (its xack call
\* failed) is eventually delivered again, unless it is acknowledged after all.
C5_Redelivery ==
  \A m \in 1..MaxTickets :
    Abandoned(m) ~> (DeliveryCount(m) >= 2 \/ Acked(m))

StatusRank(s) ==
  CASE s = UNINITIALIZED -> 0
    [] s = PROCESSING -> 1
    [] s = DONE -> 2

\* C6: no step moves a stored status backwards in the order
\* UNINITIALIZED, PROCESSING, DONE, also with two units of work for a ticket.
C6_StatusMonotonic ==
  [][\A t \in DOMAIN store :
       StatusRank(model_validate_json(store'[t]).status)
         >= StatusRank(StoredTicket(t).status)]_vars

\* C7: a stored ticket that is UNINITIALIZED or PROCESSING has no answer, and
\* get_ticket_data returns it without an answer.
C7_NoAnswerBeforeDone ==
  \A t \in DOMAIN store :
    StoredTicket(t).status \in {UNINITIALIZED, PROCESSING} =>
      /\ StoredTicket(t).answer = None
      /\ \A o \in Answering :
           LET r == get_ticket_data(o, redis_get(store, t))
           IN r.kind = "ok" /\ r.ticket[1].answer = None

\* the backend has answered and the unit of work is about to store the answer
\* of a ticket that is still PROCESSING
C7_Witness ==
  \E t \in DOMAIN store, u \in Units :
    /\ StoredTicket(t).status = PROCESSING
    /\ u \in ProcessUnits(t)
    /\ units[u].pc = "answer_save"
    /\ units[u].loc[1].answer \in Answers

\* C8: a stored ticket that is DONE has an answer, and get_ticket_data returns
\* it with that answer.
C8_DoneHasAnswer ==
  \A t \in DOMAIN store :
    StoredTicket(t).status = DONE =>
      /\ StoredTicket(t).answer \in Answers
      /\ \A o \in Answering :
           LET r == get_ticket_data(o, redis_get(store, t))
           IN r.kind = "ok" /\ r.ticket[1].answer \in Answers

\* a ticket is DONE while another one is still being processed
C8_Witness ==
  \E t \in DOMAIN store, t2 \in DOMAIN store :
    /\ StoredTicket(t).status = DONE
    /\ StoredTicket(t2).status = PROCESSING

CallUnits(id) == {u \in Units : units[u].origin = "call" /\ units[u].tid = id}
NeverReturned(id) == id \notin TicketIds \/ cpc[id] # "returned"
NeverSaved(id) == id \notin TicketIds \/ cpc[id] \in {"none", "DatabaseException"}

\* C10 as stated: for an id create_ticket never returned, the four operations
\* fail with TicketNotFound and no record exists or is written for the id.
C10_UnknownIdNotFound ==
  \A id \in Ids :
    NeverReturned(id) =>
      /\ id \notin DOMAIN store
      /\ \A o \in Answering :
           /\ get_ticket_data(o, redis_get(store, id)).kind
                = "TicketNotFoundException"
           /\ get_ticket_status(o, redis_get(store, id)).kind
                = "TicketNotFoundException"
      /\ \A u \in CallUnits(id) :
           /\ units[u].writes = 0
           /\ units[u].pc \notin {"status_save", "answer_save"}
           /\ units[u].pc = "done" => units[u].err = "TicketNotFoundException"

\* C10 amended: for an id under which no create_ticket call saved a ticket,
\* the four operations fail, with TicketNotFound when a read attempt gets an
\* answer from the store and with DatabaseException when all attempts fail,
\* and no record exists or is written for the id.
C10_UnsavedIdNotFound ==
  \A id \in Ids :
    NeverSaved(id) =>
      /\ id \notin DOMAIN store
      /\ \A o \in AttemptOutcomes :
           LET expected == IF o \in Answering THEN "TicketNotFoundException"
                           ELSE "DatabaseException"
           IN /\ get_ticket_data(o, redis_get(store, id)).kind = expected
              /\ get_ticket_status(o, redis_get(store, id)).kind = expected
      /\ \A u \in CallUnits(id) :
           /\ units[u].writes = 0
           /\ units[u].pc \notin {"status_save", "answer_save"}
           /\ units[u].pc = "done" =>
                units[u].err \in {"TicketNotFoundException", "DatabaseException"}

\* update_ticket_status and update_ticket_answer were both called on an id
\* with no ticket and both raised TicketNotFound
C10_Witness ==
  \E id \in Ids, u \in Units, v \in Units :
    /\ NeverSaved(id)
    /\ u \in CallUnits(id) /\ units[u].mode = "update_status"
    /\ v \in CallUnits(id) /\ units[v].mode = "update_answer"
    /\ units[u].pc = "done" /\ units[u].err = "TicketNotFoundException"
    /\ units[v].pc = "done" /\ units[v].err = "TicketNotFoundException"

\* --------------------------------------------------------------- C11
\* the records of one topic that consumer c has observed, in the order in
\* which subscribe yielded them (a record is named by its place in the stream,
\* which is the order of the publish calls)
Observed(c, topic) ==
  SelectSeq(yielded[c], LAMBDA m : stream[m].topic = topic)

\* C11: per-consumer ordering: when record A was published to a topic before
\* record B of the same topic, a consumer that observes both through subscribe
\* observes A before B
C11_PerConsumerOrder ==
  \A c \in Consumers :
    \A i, j \in 1..Len(Observed(c, TicketCreatedTopic)) :
      i < j => Observed(c, TicketCreatedTopic)[i]
                 < Observed(c, TicketCreatedTopic)[j]

\* one consumer has observed two records of the topic, the first of them
\* published for the ticket created second
C11_Witness ==
  \E c \in Consumers :
    /\ Len(Observed(c, TicketCreatedTopic)) >= 2
    /\ EventTicket(Observed(c, TicketCreatedTopic)[1])
         > EventTicket(Observed(c, TicketCreatedTopic)[2])

\* --------------------------------------------------------------- C12
\* the records consumer c has received through subscribe
Received(c) == {yielded[c][i] : i \in 1..Len(yielded[c])}

\* C12: competing consumers: with several consumers of one group subscribed
\* to ticket.created, every published ticket.created event is eventually
\* delivered to exactly one of them; no event is lost, and the sets of records
\* received by distinct consumers are disjoint
C12_CompetingConsumers ==
  /\ \A m \in 1..MaxTickets : (m \in Events) ~> (DeliveryCount(m) = 1)
  /\ [](\A m \in Events : DeliveryCount(m) <= 1)
  /\ [](\A c, d \in Consumers : c # d => Received(c) \cap Received(d) = {})

\* each of two consumers has received one of two published events
C12_Witness ==
  /\ Cardinality(Events) >= 2
  /\ \A c \in Consumers : Received(c) # {}
  /\ \A m \in Events : DeliveryCount(m) = 1

\* --------------------------------------------------------------- C13
\* the create_ticket calls whose publish failed after save_ticket succeeded
EnqueueFailed == {t \in TicketIds : cpc[t] = "MessageBrokerException"}

\* C13: when publish fails inside create_ticket after save_ticket succeeded,
\* create_ticket raises MessageBrokerException, which is not the error of a
\* failed save (DatabaseException); the ticket remains in the store, no event
\* refers to it, and its status stays UNINITIALIZED in every later state
C13_EnqueueFailure ==
  \A t \in EnqueueFailed :
    /\ cpc[t] # "DatabaseException"
    /\ t \in DOMAIN store
    /\ \A m \in Events : EventTicket(m) # t
    /\ ProcessUnits(t) = {}
    /\ StoredTicket(t).status = UNINITIALIZED
    /\ \A o \in Answering : get_ticket_status(o, redis_get(store, t)).ticket
           = Some(UNINITIALIZED)

\* the publish of one create_ticket failed while the ticket created by
\* another call has been processed to DONE
C13_Witness ==
  \E t, s \in TicketIds :
    /\ t \in EnqueueFailed
    /\ s \in DOMAIN store
    /\ StoredTicket(s).status = DONE

\* --------------------------------------------------------------- C14
\* C14: for every ticket the stored updated_at never decreases from one state
\* of the store to the next, under any interleaving of concurrent
\* update_ticket_status and update_ticket_answer calls on the ticket (each call
\* reads the clock when it computes its timestamp)
C14_UpdatedAtMonotonic ==
  [][\A t \in DOMAIN store :
       model_validate_json(store'[t]).updated_at
         >= model_validate_json(store[t]).updated_at]_vars

\* --------------------------------------------------------------- C15
\* C15: frame: once a ticket is created, no operation of the Ticket Service or
\* of the processor changes its stored id, question or created_at, and no
\* operation removes the ticket from the store
C15_Frame ==
  [][\A t \in DOMAIN store :
       /\ t \in DOMAIN store'
       /\ model_validate_json(store'[t]).id = model_validate_json(store[t]).id
       /\ model_validate_json(store'[t]).question
            = model_validate_json(store[t]).question
       /\ model_validate_json(store'[t]).created_at
            = model_validate_json(store[t]).created_at]_vars

\* a status update and an answer update, both begun after the ticket was
\* created, have overwritten the stored ticket at a later time
C15_Witness ==
  \E t \in DOMAIN store : \E u, v \in CallUnits(t) :
    /\ units[u].mode = "update_status" /\ units[u].writes = 1
    /\ units[v].mode = "update_answer" /\ units[v].writes = 1
    /\ StoredTicket(t).updated_at > StoredTicket(t).created_at

\* --------------------------------------------------------------- C16
\* two tickets agree on the fields the round trip has to preserve
SameContent(a, b) ==
  /\ a.id = b.id
  /\ a.question = b.question
  /\ a.status = b.status
  /\ a.answer = b.answer

\* what get_ticket(id) returns from store st when the store answers
ReadsBack(st, id, ticket) ==
  \A o \in Answering :
    LET r == get_ticket(o, redis_get(st, id))
    IN /\ r.kind = "ok"
       /\ r.ticket # Nothing
       /\ SameContent(r.ticket[1], ticket)

ForeignEvents == {m \in Events : EventTicket(m) = UnknownId}

PublishForeign ==
  /\ Cardinality(ForeignEvents) < MaxExtra
  /\ stream' = Append(stream,
                 message_data(TicketCreatedTopic,
                              json_dumps([ticket_id |-> UnknownId])))
  /\ UNCHANGED << store, clock, createVars, groupExists, lastDelivered,
                  pending, workerVars, units, faults >>
  /\ UNCHANGED memVars

\* the program with one worker, calls that may fail, and a stream that other
\* producers publish to as well; the worker task and every unit of work are
\* scheduled whenever they can run
ForeignNext ==
  \/ CreateSave(FewTickets, TRUE)
  \/ \E t \in TicketIds : CreatePublish(t, TRUE)
  \/ PublishForeign
  \/ EnsureConsumerGroup(DefaultConsumer, TRUE)
  \/ XReadGroup(DefaultConsumer, TRUE)
  \/ XAck(DefaultConsumer, TRUE)
  \/ Backoff(DefaultConsumer)
  \/ \E u \in Units : UnitGet(u, TRUE)
  \/ \E u \in Units : UnitStatusGet(u, TRUE)
  \/ \E u \in Units : UnitStatusSave(u, TRUE)
  \/ \E u \in Units : UnitLLM(u, TRUE)
  \/ \E u \in Units : UnitAnswerGet(u, TRUE)
  \/ \E u \in Units : UnitAnswerSave(u, TRUE)

ForeignSpec ==
  /\ Init
  /\ [][ForeignNext]_vars
  /\ WF_vars(WorkerLoop(DefaultConsumer))
  /\ \A u \in Units : WF_vars(UnitStep(u, TRUE))

\* the units of work that ended with an error process_ticket caught
FailedUnits == {u \in Units : units[u].pc = "done" /\ units[u].err # "none"}

\* unit u ends with exception exc in this step
Fails(u, exc) == units[u].err = "none" /\ units'[u].err = exc

\* C17: an error raised inside one record's unit of work (ticket not found,
\* store failure, backend failure) is caught inside process_ticket and never
\* stops the consumer loop: the step in which the unit fails leaves the
\* subscribe loop and the group as they are, and every record of the stream is
\* still consumed and its unit of work run to its end; when the ticket is not
\* found the store is left unchanged
C17_ErrorsDoNotStopLoop ==
  /\ [][\A u \in Units :
          (units[u].err = "none" /\ units'[u].err # "none")
            => /\ units'[u].pc = "done"
               /\ UNCHANGED << brokerVars, workerVars >>]_vars
  /\ [][\A u \in Units :
          Fails(u, "TicketNotFoundException") => store' = store]_vars
  /\ \A m \in Units :
       (m \in Events /\ FailedUnits # {})
         ~> (\E v \in Units : units[v].msg = m /\ units[v].pc = "done")

\* the unit of work of the first record ended with TicketNotFound and the
\* ticket of the record that came after it was processed to DONE
C17_Witness ==
  \E u, v \in Units :
    /\ units[u].pc = "done" /\ units[u].err = "TicketNotFoundException"
    /\ units[u].writes = 0
    /\ units[v].msg > units[u].msg
    /\ units[v].pc = "done" /\ units[v].err = "none"
    /\ StoredTicket(units[v].tid).status = DONE

\* --------------------------------------------------------------- C18
\* the units of work whose backend call failed
BackendFailed == {u \in Units : units[u].err = "LLMServiceException"}

\* C18: if the processing backend fails for a ticket after the ticket was
\* moved to PROCESSING, the ticket's status is PROCESSING in every later state:
\* it never becomes DONE and no other unit of work is ever started for it
C18_BackendFailureStrands ==
  \A u \in BackendFailed :
    /\ units[u].pc = "done"
    /\ units[u].writes = 1
    /\ units[u].tid \in DOMAIN store
    /\ StoredTicket(units[u].tid).status = PROCESSING
    /\ StoredTicket(units[u].tid).answer = None
    /\ ProcessUnits(units[u].tid) = {u}
    /\ DeliveryCount(units[u].msg) = 1

\* the backend failed for one ticket, its record is acknowledged and the
\* worker has gone on to process another ticket to DONE
C18_Witness ==
  \E u \in BackendFailed : \E t \in DOMAIN store :
    /\ Acked(units[u].msg)
    /\ t # units[u].tid
    /\ StoredTicket(t).status = DONE
    /\ StoredTicket(units[u].tid).status = PROCESSING

\* --------------------------------------------------------------- C19
\* the units of work that are waiting for the backend's answer
AwaitingBackend == {u \in Units : units[u].pc = "llm"}

\* the worker reads the next record and starts its unit of work
ConsumeNext(c) ==
  /\ XReadGroup(c, FALSE)
  /\ \E v \in Units : /\ units[v].pc = "idle"
                      /\ units'[v].pc = "get"
                      /\ units'[v].msg = lastDelivered + 1

\* C19: a pending backend call for one ticket never blocks the consumption of
\* the next record: while a unit of work is waiting on the backend and a
\* further record is in the stream, the worker's loop, once back at its read,
\* can receive that record and start its unit of work
C19_BackendDoesNotBlock ==
  (/\ AwaitingBackend # {}
   /\ wpc[DefaultConsumer] = "read"
   /\ groupExists
   /\ lastDelivered < Len(stream))
    => ENABLED ConsumeNext(DefaultConsumer)

\* ticket B, whose record came after ticket A's, is DONE while A's unit of
\* work is still waiting on the backend
C19_Witness ==
  \E a \in AwaitingBackend : \E b \in Units :
    /\ units[b].msg > units[a].msg
    /\ units[b].pc = "done" /\ units[b].err = "none"
    /\ StoredTicket(units[b].tid).status = DONE
    /\ StoredTicket(units[a].tid).status = PROCESSING

\* --------------------------------------------------------------- C20
\* the call run by unit u writes its ticket to the store in this step
Writes(u) == units'[u].writes = units[u].writes + 1

\* after this step the stored status of id is DONE
StoresDone(id) ==
  /\ id \in DOMAIN store'
  /\ model_validate_json(store'[id]).status = DONE

\* create_ticket saves ticket t in this step
Creates(t) == cpc[t] = "none" /\ cpc'[t] = "saved"

FirstAnswer(outcomes) ==
  CHOOSE i \in 1..max_retries :
    outcomes[i] = "ok" /\ \A j \in 1..(i - 1) : outcomes[j] = "err"

\* C21: get_ticket makes at most 3 read attempts: it returns the result of the
\* first attempt that does not fail, returns absent (None) for a missing key
\* on that attempt without retrying, and raises DatabaseException exactly when
\* all 3 attempts fail
C21_BoundedRetry ==
  /\ max_retries = 3
  /\ \A id \in Ids : \A outcomes \in AttemptOutcomes :
       LET raw == redis_get(store, id)
           r == get_ticket(outcomes, raw)
       IN /\ r.attempts \in 1..3
          /\ IF outcomes \in Answering
               THEN /\ r.kind = "ok"
                    /\ r.attempts = FirstAnswer(outcomes)
                    /\ r.ticket = IF id \in DOMAIN store
                                    THEN Some(model_validate_json(store[id]))
                                    ELSE Nothing
               ELSE /\ r.kind = "DatabaseException"
                    /\ r.attempts = 3
                    /\ r.ticket = Nothing

\* a call's read of a stored ticket failed on all three attempts and raised
\* DatabaseException, and a call on an id with no ticket got the absent result
C21_Witness ==
  /\ \E t \in DOMAIN store : \E u \in CallUnits(t) :
       /\ units[u].pc = "done" /\ units[u].err = "DatabaseException"
       /\ units[u].writes = 0
  /\ \E w \in CallUnits(UnknownId) :
       units[w].pc = "done" /\ units[w].err = "TicketNotFoundException"

\* --------------------------------------------------------------- C22
\* the consumers whose subscribe call is past _ensure_consumer_group
Bootstrapped == {c \in Consumers : wpc[c] # "ensure"}

\* C22: group bootstrap is idempotent: when several consumers call subscribe
\* for the same stream and group, one group cursor exists afterwards (a later
\* bootstrap neither removes the group nor moves its cursor back), "already
\* exists" is not surfaced as an error (no consumer ends up in the error
\* handling of its loop), and every one of the consumers proceeds to read
C22_BootstrapIdempotent ==
  /\ [][groupExists => (groupExists' /\ lastDelivered' >= lastDelivered)]_vars
  /\ [](\A c \in Bootstrapped : groupExists /\ wpc[c] \in {"read", "ack"})
  /\ \A c \in Consumers : (wpc[c] = "ensure") ~> (wpc[c] = "read")

\* both consumers are past their bootstrap and the one group has handed the
\* first record to one of them and the second record to the other
C22_Witness ==
  /\ Bootstrapped = Consumers
  /\ \A c \in Consumers : Len(yielded[c]) >= 1
  /\ \E c \in Consumers : yielded[c][1] = 1 /\ Len(yielded[c]) = 1
  /\ lastDelivered = 2

\* ------------------------------------------- a stream open to any producer
\* the entries another client can XADD to the stream besides the events of
\* create_ticket: a ticket.created entry whose data is not JSON, an entry of
\* another topic, and ticket.created entries whose payload is "[]" or "{}"
RawEntries ==
  { message_data(TicketCreatedTopic, undecodable),
    message_data(OtherTopic, json_dumps([ticket_id |-> UnknownId])),
    message_data(TicketCreatedTopic, json_dumps(json_list)),
    message_data(TicketCreatedTopic, json_dumps(empty_mapping)) }

RawIds == {m \in 1..Len(stream) : stream[m] \in RawEntries}

PublishRaw(entry) ==
  /\ Cardinality(RawIds) < MaxRaw
  /\ stream' = Append(stream, entry)
  /\ UNCHANGED << store, clock, createVars, groupExists, lastDelivered,
                  pending, workerVars, units, faults >>
  /\ UNCHANGED memVars

\* the records whose payload made the loop body of consumer c raise: each of
\* them put one more start_processing call on top of the one before
RestartDepth(c) ==
  Cardinality({i \in 1..Len(yielded[c]) :
                 ~is_mapping(json_loads(stream[yielded[c][i]].data))})

\* variant: the restarted subscription starts again from the oldest record
\* its consumer still holds unacknowledged
Restart_ReplaysPending(c) ==
  /\ wpc[c] = "restart"
  /\ wpc' = [wpc EXCEPT ![c] = IF RestartDepth(c) <= RecursionLimit
                                  THEN "ensure" ELSE "stopped"]
  /\ lastDelivered' =
       LET own == {m \in 1..lastDelivered : << m, c >> \in pending}
       IN IF own = {} THEN lastDelivered
          ELSE (CHOOSE m \in own : \A n \in own : m <= n) - 1
  /\ UNCHANGED << store, clock, createVars, stream, groupExists, pending,
                  wmsg, yielded, units, faults >>
  /\ UNCHANGED memVars

\* start_processing: except Exception: sleep(5), await self.start_processing().
\* The calls nest, none returns; past the interpreter's recursion limit the
\* call raises RecursionError, which leaves every start_processing on the way
\* up (each is in its except branch) and ends the worker
Restart(c) ==
  /\ wpc[c] = "restart"
  /\ wpc' = [wpc EXCEPT ![c] = IF RestartDepth(c) <= RecursionLimit
                                  THEN "ensure" ELSE "stopped"]
  /\ UNCHANGED << store, clock, createVars, brokerVars, wmsg, yielded, units,
                  faults >>
  /\ UNCHANGED memVars

\* the workers of one group on a stream that other producers write to as
\* well; no call fails and every worker keeps being scheduled.  The units of
\* work stay where create_task put them
RawNext ==
  \/ CreateSave(FewTickets, FALSE)
  \/ \E t \in TicketIds : CreatePublish(t, FALSE)
  \/ \E entry \in RawEntries : PublishRaw(entry)
  \/ \E c \in Consumers : EnsureConsumerGroup(c, FALSE)
  \/ \E c \in Consumers : XReadGroup(c, FALSE)
  \/ \E c \in Consumers : XAck(c, FALSE)
  \/ \E c \in Consumers : Restart(c)

RawSpec ==
  /\ Init
  /\ [][RawNext]_vars
  /\ \A c \in Consumers : WF_vars(WorkerStep(c, FALSE) \/ Restart(c))

\* --------------------------------------------------------------- C23
\* the longest the stream gets
StreamIds == 1..(MaxTickets + MaxRaw)

\* the records of the subscribed topic whose payload json.loads rejects
Malformed ==
  {m \in 1..Len(stream) : /\ stream[m].topic = TicketCreatedTopic
                          /\ ~stream[m].data.decodable}

\* how many times record m was yielded, over all consumers
YieldCount(m) ==
  Cardinality({p \in Consumers \X StreamIds :
                 p[2] <= Len(yielded[p[1]]) /\ yielded[p[1]][p[2]] = m})

\* the consumer that read record m is at the xack for it
AtAck(m) == \E c \in Consumers : wpc[c] = "ack" /\ wmsg[c] = m

\* C23: a record of the subscribed topic whose payload is not decodable is
\* acknowledged as soon as it is read (the xack is the next thing its reader
\* does, and it is made), is never yielded to the caller, and does not stop
\* the subscription: the next record is still delivered
C23_MalformedDropped ==
  /\ [](\A m \in Malformed : YieldCount(m) = 0)
  /\ [](\A m \in Malformed : Delivered(m) => (AtAck(m) \/ Acked(m)))
  /\ \A m \in StreamIds : (m \in Malformed /\ Delivered(m)) ~> Acked(m)
  /\ \A m \in StreamIds :
       (m \in Malformed /\ m + 1 <= Len(stream)) ~> Delivered(m + 1)

\* an undecodable record is acknowledged without having been yielded, and
\* the consumer that read it has been yielded the record after it
C23_Witness ==
  \E m \in Malformed : \E c \in Consumers :
    /\ Acked(m)
    /\ YieldCount(m) = 0
    /\ yielded[c] = << m + 1 >>
    /\ lastDelivered = m + 1
    /\ m = 1
    /\ \A d \in Consumers \ {c} : wpc[d] = "ensure"

\* --------------------------------------------------------------- C24
\* C24: a failing read from the stream never terminates the subscribe
\* sequence and is never raised to the caller: the consumer waits and reads
\* again, indefinitely, and the records published to a stream that can be
\* read again (its consumer group exists) are delivered
C24_ReadFailureRetries ==
  /\ [](wpc[DefaultConsumer] \in {"ensure", "read", "ack", "backoff"})
  /\ (wpc[DefaultConsumer] = "backoff") ~> (wpc[DefaultConsumer] = "read")
  /\ \A m \in StreamIds :
       (m \in Events /\ groupExists) ~> Delivered(m)

\* a read of an existing group failed after the first record was delivered,
\* the consumer is waiting to read again and a second record is waiting
C24_Witness ==
  /\ wpc[DefaultConsumer] = "backoff"
  /\ groupExists
  /\ lastDelivered = 1
  /\ Len(stream) = 2

\* --------------------------------------------------------------- C25
\* C25: whenever iteration over the subscription raises inside
\* start_processing, the processor waits and then starts a fresh subscribe
\* loop; this happens after every such failure, without bound, so no
\* processor ever stops consuming for good
C25_RestartsWithoutBound ==
  /\ \A c \in Consumers : (wpc[c] = "restart") ~> (wpc[c] = "read")
  /\ [](\A c \in Consumers : wpc[c] # "stopped")

\* --------------------------------------------------------------- C26
\* C26: no record of the stream is yielded more than once, over all the
\* consumers of the group, whether it was acknowledged or not
C26_AtMostOnce ==
  \A m \in StreamIds : YieldCount(m) <= 1

\* a record was yielded and never acknowledged, its reader has restarted its
\* subscription and read again, and both consumers have been yielded records
C26_Witness ==
  \E c \in Consumers : \E m \in StreamIds :
    /\ << m, c >> \in pending
    /\ YieldCount(m) = 1
    /\ Len(yielded[c]) = 2
    /\ yielded[c][1] = m
    /\ wpc[c] = "ack"
    /\ \A d \in Consumers \ {c} : Len(yielded[d]) = 1

\* --------------------------------------------------------------- C27
\* the records of the stream published under another topic
OtherTopicEntries ==
  {m \in 1..Len(stream) : stream[m].topic # TicketCreatedTopic}

\* C27: a record the consumer read whose topic is not the subscribed one is
\* neither yielded nor acknowledged: it is in the group's pending set in
\* every state after the read
C27_OtherTopicStaysPending ==
  \A m \in OtherTopicEntries :
    Delivered(m) => (IsPending(m) /\ YieldCount(m) = 0)

\* a record of another topic was read and is pending, and the consumer that
\* read it has since been yielded the next record and acknowledged it
C27_Witness ==
  \E c \in Consumers : \E m \in OtherTopicEntries :
    /\ << m, c >> \in pending
    /\ yielded[c] = << m + 1 >>
    /\ Acked(m + 1)
    /\ wpc[c] = "read"

\* --------------------------------------------------------------- C28
\* the records the loop body of start_processing raises on: the payload is
\* valid JSON and not a mapping
Raising ==
  {m \in 1..Len(stream) : /\ stream[m].topic = TicketCreatedTopic
                          /\ stream[m].data.decodable
                          /\ ~is_mapping(json_loads(stream[m].data))}

\* C28: when the body of the worker loop raises on a yielded record, the
\* restarted subscription reads only new records: the record in hand is
\* never acknowledged (it stays pending) and is never delivered again (it was
\* yielded once, and whatever is yielded is the record after the last one
\* the group delivered)
C28_RaisedRecordAbandoned ==
  /\ [](\A m \in Raising : Delivered(m) => (IsPending(m) /\ YieldCount(m) = 1))
  /\ [](\A c \in Consumers : wpc[c] = "restart" => wmsg[c] = 0)
  /\ [][\A c \in Consumers :
          yielded'[c] # yielded[c] =>
            yielded'[c] = Append(yielded[c], lastDelivered + 1)]_vars

\* the loop body raised on a record, the worker restarted its subscription
\* and was yielded the record after it; the first one is still pending
C28_Witness ==
  \E c \in Consumers : \E m \in Raising :
    /\ yielded[c] = << m, m + 1 >>
    /\ << m, c >> \in pending
    /\ m + 1 \notin Raising
    /\ wpc[c] = "ack"
    /\ wmsg[c] = m + 1

\* --------------------------------------------------------------- C29
\* the subscription of the worker is past its one attempt to create the
\* consumer group and the group does not exist
GroupMissing == ~groupExists /\ wpc[DefaultConsumer] # "ensure"

\* C29: the creation of the consumer group is attempted once per subscribe
\* call and its failure is swallowed (the subscription goes on to read and
\* never comes back to the creation); if the group does not exist after the
\* attempt it is never created, every read fails and is retried, forever,
\* and the subscription yields no record
C29_GroupCreatedOnce ==
  /\ [][wpc[DefaultConsumer] = "ensure" =>
          wpc'[DefaultConsumer] \in {"ensure", "read"}]_vars
  /\ [][wpc[DefaultConsumer] # "ensure" =>
          wpc'[DefaultConsumer] # "ensure"]_vars
  /\ [][GroupMissing => GroupMissing']_vars
  /\ [](GroupMissing => /\ yielded[DefaultConsumer] = << >>
                        /\ lastDelivered = 0
                        /\ wpc[DefaultConsumer] \in {"read", "backoff"})
  /\ (GroupMissing /\ wpc[DefaultConsumer] = "read")
       ~> (wpc[DefaultConsumer] = "backoff")
  /\ (GroupMissing /\ wpc[DefaultConsumer] = "backoff")
       ~> (wpc[DefaultConsumer] = "read")

\* the creation of the group failed and was swallowed; two events are on the
\* stream, the read has failed and the consumer waits to read again
C29_Witness ==
  /\ GroupMissing
  /\ wpc[DefaultConsumer] = "backoff"
  /\ Len(stream) = 2
  /\ yielded[DefaultConsumer] = << >>

\* ------------------------------------------------- the in-memory broker
pipelineVars == << store, clock, nextId, cpc, stream, groupExists,
                   lastDelivered, pending, wpc, wmsg, yielded, units, faults >>

\* the messages create_ticket publishes
MemPayloads == {[ticket_id |-> t] : t \in 1..FewTickets}
\* how many messages the log holds, over all topics
Published == Len(messages[TicketCreatedTopic]) + Len(messages[OtherTopic])
\* on_message of subscription s is in _callbacks[topic]
Registered(s, topic) ==
  \E i \in 1..Len(callbacks[topic]) : callbacks[topic][i] = s

\* InMemoryMessageBroker.publish: append to the log of the topic, then call
\* every callback registered on the topic (put_nowait on its queue, which is
\* unbounded).  The call has no await inside: it is one step
MemPublish(topic, message) ==
  /\ Published < MaxMessages
  /\ messages' = [messages EXCEPT ![topic] = Append(@, message)]
  /\ queue' = [s \in Subscriptions |->
                 IF Registered(s, topic)
                   THEN Append(queue[s], Len(messages[topic]) + 1)
                   ELSE queue[s]]
  /\ UNCHANGED << callbacks, consumed, spc, pipelineVars >>
  /\ UNCHANGED procVars

\* variant: a new subscription is first given the log of its topic
MemSubscribe_ReplaysLog(s, topic) ==
  /\ spc[s] = "new"
  /\ queue' = [queue EXCEPT ![s] =
                 [k \in 1..Len(messages[topic]) |-> k]]
  /\ callbacks' = [callbacks EXCEPT ![topic] = Append(@, s)]
  /\ spc' = [spc EXCEPT ![s] = "waiting"]
  /\ UNCHANGED << messages, consumed, pipelineVars >>
  /\ UNCHANGED procVars

\* InMemoryMessageBroker.subscribe up to its first await: the body of the
\* generator runs when it is first iterated; it creates the queue and
\* registers on_message
MemSubscribe(s, topic) ==
  /\ spc[s] = "new"
  /\ queue' = [queue EXCEPT ![s] = << >>]
  /\ callbacks' = [callbacks EXCEPT ![topic] = Append(@, s)]
  /\ spc' = [spc EXCEPT ![s] = "waiting"]
  /\ UNCHANGED << messages, consumed, pipelineVars >>
  /\ UNCHANGED procVars

\* subscribe: message = await queue.get(); yield message
MemGet(s) ==
  /\ spc[s] = "waiting"
  /\ queue[s] # << >>
  /\ consumed' = [consumed EXCEPT ![s] = Append(@, Head(queue[s]))]
  /\ queue' = [queue EXCEPT ![s] = Tail(@)]
  /\ UNCHANGED << messages, callbacks, spc, pipelineVars >>
  /\ UNCHANGED procVars

\* subscribe: the finally clause, run when the caller closes the generator;
\* it removes on_message from the callbacks of the topic
MemClose(s) ==
  /\ spc[s] = "waiting"
  /\ callbacks' = [tp \in Topics |->
                     SelectSeq(callbacks[tp], LAMBDA r : r # s)]
  /\ spc' = [spc EXCEPT ![s] = "closed"]
  /\ UNCHANGED << messages, queue, consumed, pipelineVars >>
  /\ UNCHANGED procVars

\* publishers and subscribers of the in-memory broker; a subscriber that
\* waits on its queue is resumed when the queue holds a message
MemNext ==
  \/ \E tp \in Topics : \E message \in MemPayloads : MemPublish(tp, message)
  \/ \E s \in Subscriptions : \E tp \in Topics : MemSubscribe(s, tp)
  \/ \E s \in Subscriptions : MemGet(s)
  \/ \E s \in Subscriptions : MemClose(s)

MemSpec ==
  /\ Init
  /\ [][MemNext]_vars
  /\ \A s \in Subscriptions : WF_vars(MemGet(s))

\* --------------------------------------------------------------- C30
\* what subscription s was handed so far, yielded or still queued
Inbox(s) == consumed[s] \o queue[s]
\* the positions of a sequence follow each other without a gap
Consecutive(seq) == \A i \in 1..(Len(seq) - 1) : seq[i + 1] = seq[i] + 1
Holds(seq, k) == \E i \in 1..Len(seq) : seq[i] = k

\* C30: a message published to a topic is handed, in publish order, to
\* exactly the subscriptions registered on the topic when it is published,
\* and each of them receives it unless it is closed first; a subscription
\* is handed nothing at any other step, so one that starts after the publish
\* never receives the message
C30_DeliveredToRegistered ==
  /\ [][\A tp \in Topics :
          messages'[tp] # messages[tp] =>
            \A s \in Subscriptions :
              queue'[s] = IF Registered(s, tp)
                            THEN Append(queue[s], Len(messages'[tp]))
                            ELSE queue[s]]_vars
  /\ [][\A s \in Subscriptions :
          Inbox(s)' # Inbox(s) => messages' # messages]_vars
  /\ [](\A s \in Subscriptions :
          /\ Consecutive(Inbox(s))
          /\ spc[s] = "new" => Inbox(s) = << >>
          /\ \A tp \in Topics :
               (Registered(s, tp) /\ Inbox(s) # << >>) =>
                 Inbox(s)[Len(Inbox(s))] = Len(messages[tp]))
  /\ \A s \in Subscriptions : \A k \in 1..MaxMessages :
       Holds(queue[s], k) ~> (Holds(consumed[s], k) \/ spc[s] = "closed")

\* two messages were published to one topic; the subscription registered
\* before the first received both, in order, and the one registered between
\* the two received the second only
C30_Witness ==
  \E s \in Subscriptions : \E r \in Subscriptions :
    /\ Len(messages[TicketCreatedTopic]) = 2
    /\ consumed[s] = << 1, 2 >>
    /\ consumed[r] = << 2 >>
    /\ Registered(s, TicketCreatedTopic)
    /\ Registered(r, TicketCreatedTopic)

\* ---------------------------------------------- the in-memory processor
\* the subscription of InMemoryTicketProcessor._listen_for_tickets
ProcessorSub == 1

\* InMemoryTicketRepository.get_ticket and save_ticket / update_ticket: the
\* repository is a dict of Ticket objects
InMemory_get_ticket(repository, ticket_id) ==
  IF ticket_id \in DOMAIN repository
    THEN Some(repository[ticket_id]) ELSE Nothing
InMemory_save_ticket(repository, ticket) ==
  [k \in DOMAIN repository \cup {ticket.id} |->
     IF k = ticket.id THEN ticket ELSE repository[k]]

\* InMemoryLLMClient.generate: the mock response to a question
mock_response(question) == "a1"

\* InMemoryTicketProcessor.process_ticket run on a repository: the repository
\* it leaves, the calls of the backend it made and the exception it caught.
\* The awaits inside touch nothing but that repository
InMemory_process_ticket(repository, ticket_id, now) ==
  LET found == InMemory_get_ticket(repository, ticket_id)
  IN IF found = Nothing
       THEN [repository |-> repository, calls |-> 0,
             err |-> "TicketNotFoundException"]
       ELSE [repository |->
               InMemory_save_ticket(repository,
                 [found[1] EXCEPT !.answer = mock_response(found[1].question),
                                  !.status = DONE, !.updated_at = now]),
             calls |-> 1, err |-> "none"]

\* create_ticket with the in-memory repository: the ticket is saved through
\* the singleton get_ticket_repository returns
MemSaveTicket(t) ==
  /\ t \notin DOMAIN tickets
  /\ \E question \in Questions :
       tickets' = InMemory_save_ticket(tickets,
                    Ticket(t, question, UNINITIALIZED, clock, clock))
  /\ UNCHANGED << messages, callbacks, queue, consumed, spc, ownTickets,
                  mtasks, llmCalls, pipelineVars >>

\* _listen_for_tickets: the next message of the subscription; a message
\* with a ticket_id gets a process_ticket task
ListenForTickets(s) ==
  /\ spc[s] = "waiting"
  /\ queue[s] # << >>
  /\ consumed' = [consumed EXCEPT ![s] = Append(@, Head(queue[s]))]
  /\ queue' = [queue EXCEPT ![s] = Tail(@)]
  /\ LET message == messages[TicketCreatedTopic][Head(queue[s])]
     IN mtasks' = IF "ticket_id" \in DOMAIN message
                    THEN Append(mtasks, [pc |-> "created",
                                         tid |-> message.ticket_id,
                                         err |-> "none"])
                    ELSE mtasks
  /\ UNCHANGED << messages, callbacks, spc, tickets, ownTickets, llmCalls,
                  pipelineVars >>

\* variant: the processor works on the singleton repository
ProcessTicket_SharedRepository(k) ==
  /\ k \in 1..Len(mtasks)
  /\ mtasks[k].pc = "created"
  /\ LET r == InMemory_process_ticket(tickets, mtasks[k].tid, clock)
     IN /\ tickets' = r.repository
        /\ llmCalls' = llmCalls + r.calls
        /\ mtasks' = [mtasks EXCEPT ![k].pc = "done", ![k].err = r.err]
  /\ UNCHANGED << messages, callbacks, queue, consumed, spc, ownTickets,
                  pipelineVars >>

\* a process_ticket task of InMemoryTicketProcessor: it works on
\* self.repository, the InMemoryTicketRepository its constructor created
ProcessTicket(k) ==
  /\ k \in 1..Len(mtasks)
  /\ mtasks[k].pc = "created"
  /\ LET r == InMemory_process_ticket(ownTickets, mtasks[k].tid, clock)
     IN /\ ownTickets' = r.repository
        /\ llmCalls' = llmCalls + r.calls
        /\ mtasks' = [mtasks EXCEPT ![k].pc = "done", ![k].err = r.err]
  /\ UNCHANGED << messages, callbacks, queue, consumed, spc, tickets,
                  pipelineVars >>

\* the in-memory processor and the service in one process: tickets are
\* created through the singleton repository and announced on the broker
ProcNext ==
  \/ Tick
  \/ \E t \in 1..FewTickets : MemSaveTicket(t)
  \/ \E tp \in Topics : \E message \in MemPayloads : MemPublish(tp, message)
  \/ MemSubscribe(ProcessorSub, TicketCreatedTopic)
  \/ ListenForTickets(ProcessorSub)
  \/ \E k \in 1..MaxMessages : ProcessTicket(k)

ProcSpec == Init /\ [][ProcNext]_vars

\* --------------------------------------------------------------- C31
\* C31: InMemoryTicketProcessor works on its private repository only: for a
\* ticket saved through the singleton repository alone, process_ticket
\* finds no ticket (it ends with TicketNotFoundException), calls no backend,
\* and the ticket's stored status stays UNINITIALIZED with no answer
C31_PrivateRepository ==
  /\ \A k \in 1..Len(mtasks) :
       mtasks[k].pc = "done" => mtasks[k].err = "TicketNotFoundException"
  /\ llmCalls = 0
  /\ ownTickets = [k \in {} |-> None]
  /\ \A t \in DOMAIN tickets : /\ tickets[t].status = UNINITIALIZED
                                /\ tickets[t].answer = None

\* a ticket was saved through the singleton repository, its event was
\* published to the listening processor, and the process_ticket task for it
\* has ended
C31_Witness ==
  \E k \in 1..Len(mtasks) :
    /\ mtasks[k].pc = "done"
    /\ mtasks[k].tid \in DOMAIN tickets
    /\ tickets[mtasks[k].tid].status = UNINITIALIZED

============================================================================
